---- MODULE Spec2Model ----
(***************************************************************************)
(* The quiz-taking screen of QuizFlow (frontend/src/pages/Quiz.jsx): the   *)
(* status poller, the countdown and the submission, as one state machine.  *)
(* Every handler of the component is one action; a handler that awaits a   *)
(* request is cut at the await: the part before it issues the request, the *)
(* part after it is the action that handles the response.  A state update  *)
(* and the effects React runs for it are one step.  The backend is not     *)
(* part of the sources: it is the environment, one session record whose    *)
(* status moves as the specification of the session lifecycle says.       *)
(***************************************************************************)
EXTENDS Integers, Sequences, FiniteSets, Bags

\* ------------------------------------------------------------------ bounds
\* requests of one kind that may be in flight together
MaxInFlight == 2
\* seconds a countdown is followed below the value it was seeded with
MaxTicks == 60
\* questions of the quiz
NumQuestions == 2
\* seconds of simulated time in the timed specification
MaxTime == 62
\* seconds left on the countdown when the answering specification starts
LastSeconds == 2
\* submit-answers requests the backend receives for one session
MaxSubmits == 2
\* sessions in the history
MaxHistory == 6
\* sessions the History screen is given
MaxListed == 3

\* ------------------------------------------------------- program constants
\* useState(null): no number yet
Null == -1
\* setInterval(checkQuizStatus, 3000)
PollPeriod == 3
\* estimated_time_minutes || 20
DefaultMinutes == 20
\* estimatedMinutes * 60
SecondsPerMinute == 60
\* setTimeout(..., 1000)
TickPeriod == 1
\* slice(0, 5): the sessions the Dashboard keeps
RecentCount == 5

VARIABLES
  mounted,               \* "init": rendered, effects not yet run; "yes"; "no"
  interval,              \* the setInterval of the poll effect is active
  timer,                 \* the setTimeout of the countdown effect is armed
  quizStatus,            \* useState('loading')
  quizData,              \* useState(null): << >> or <<payload>>
  currentQuestionIndex,  \* useState(0)
  answers,               \* useState({}): question id -> answer
  timeRemaining,         \* useState(null)
  isSubmitting,          \* useState(false)
  error,                 \* useState(null): << >> or <<prefix, detail>>
  location,              \* the route shown: "quiz", ResultsPath or "other"
  statusReqs,            \* getQuizStatus requests in flight: a bag of the
                         \* backend's answers, "pending" before it answered
  quizReqs,              \* getQuiz requests in flight: their number
  submitReqs,            \* submitAnswers requests in flight: a bag of
                         \* [quiz_id, answers, auto |-> sent by the countdown]
  session,               \* the backend's status of the session
  quiz,                  \* the backend's quiz payload of the session
  error_message,         \* the error_message of the session's status
                         \* responses: << >> when the field is absent
  store,                 \* the Session Store: session id -> Session record
  issued,                \* the session ids handed out so far
  jobRuns,               \* session id -> runs of its generation job
  returned,              \* session id -> the status its last status query
                         \* returned, "none" before the first one
  inflight,              \* session id -> submit-answers requests received
                         \* and not yet served
  submitLog,             \* session id -> the outcomes of its submit-answers
                         \* requests, in the order they were served
  subjects,              \* Dashboard: useState([])
  recentSessions,        \* Dashboard: useState([])
  loading,               \* Dashboard: useState(true)
  dashPc,                \* Dashboard: where loadDashboardData stands:
                         \* "init", "subjects", "history" or "done"
  historyReq,            \* the getHistory request: "none", "pending", then
                         \* "ok" or "error"
  history,               \* the sessions of the /history response, in the
                         \* order the API returns them
  sessions,              \* History: useState([])
  historyLoading,        \* History: useState(true)
  historyPc,             \* History: "init", "loading" while getHistory is
                         \* awaited, "shown", or "gone" once unmounted
  deleteReqs,            \* deleteSession requests in flight: a bag of
                         \* [id, seen |-> the sessions of the render whose
                         \* handler issued the request]
  lastConfirm,           \* what the last confirm() dialog returned: "none"
                         \* before the first one, "accepted" or "declined"
  selectedSubject,       \* Dashboard: useState('')
  isGenerating,          \* Dashboard: useState(false)
  generateReqs,          \* generateQuiz requests in flight: a bag of subjects
  results,               \* Results: useState(null): << >> or <<payload>>
  resultsLoading,        \* Results: useState(true)
  resultsPc,             \* Results: "init", "fetching" while getResults is
                         \* awaited, "shown", or "gone" once unmounted
  navState,              \* Results: location.state?.results: << >> or
                         \* <<payload>>
  now,                   \* simulated seconds since the mount (timed runs)
  pollClock,             \* seconds since the interval last fired (timed runs)
  timerAge               \* seconds since the timeout was armed (timed runs)

\* the Session Store and the requests the backend has seen
backend == <<store, issued, jobRuns, returned, inflight, submitLog>>

\* the Dashboard and the history it is given
dashboard == <<subjects, recentSessions, loading, dashPc, historyReq,
               history>>

\* the History screen
historyPage == <<sessions, historyLoading, historyPc, deleteReqs,
                 lastConfirm>>

\* the quiz generation of the Dashboard
startQuiz == <<selectedSubject, isGenerating, generateReqs>>

\* the Results screen
resultsPage == <<results, resultsLoading, resultsPc, navState>>

pages == <<historyPage, startQuiz, resultsPage>>

\* what the Quiz screen never touches
elsewhere == <<backend, dashboard, pages>>

vars == <<mounted, location, interval, timer, quizStatus, quizData,
          currentQuestionIndex, answers, timeRemaining, isSubmitting, error,
          statusReqs, quizReqs, submitReqs, session, quiz, error_message,
          elsewhere, now, pollClock, timerAge>>

reactState == <<quizStatus, quizData, currentQuestionIndex, answers,
                timeRemaining, isSubmitting, error>>

clocks == <<now, pollClock, timerAge>>

Statuses == {"generating", "ready", "completed", "failed"}

\* quiz payloads: with or without quiz_metadata, estimated_time_minutes
\* omitted (Null), 0 or 1
QuizPayloads ==
  { [quiz_metadata |-> FALSE, estimated_time_minutes |-> Null],
    [quiz_metadata |-> TRUE, estimated_time_minutes |-> Null],
    [quiz_metadata |-> TRUE, estimated_time_minutes |-> 0],
    [quiz_metadata |-> TRUE, estimated_time_minutes |-> 1] }

One(x) == SetToBag({x})

\* const { sessionId } = useParams()
sessionId == "s1"

\* questions[i].id of the loaded quiz, i counted from 0
QuestionId(i) == i + 1

\* what a click on an option passes to handleAnswerChange, and what the
\* textarea passes once its text is erased
AnswerValues == {"True", ""}

\* useState({})
EmptyAnswers == [q \in {} |-> ""]

\* the error_message field of a status response: absent, or the text
ErrorMessages == {<< >>, <<"boom">>}

\* navigate(`/results/${sessionId}`)
ResultsPath(id) == <<"results", id>>

\* session ids the store may hand out
SessionIds == {"s1", "s2"}

\* the published subjects, and one that is not among them
Subjects == {"Mathematics"}

\* a Session record: quiz, result and error_message are << >> when absent
Session(status, quizField, resultField, messageField) ==
  [status |-> status, quiz |-> quizField, result |-> resultField,
   error_message |-> messageField]

EmptyStore == [id \in {} |-> Session("generating", << >>, << >>, << >>)]

\* no session was ever created and no request was ever made
BackendIdle ==
  /\ store = EmptyStore
  /\ issued = {}
  /\ jobRuns = [id \in SessionIds |-> 0]
  /\ returned = [id \in SessionIds |-> "none"]
  /\ inflight = [id \in SessionIds |-> 0]
  /\ submitLog = [id \in SessionIds |-> << >>]

\* the Dashboard as it is rendered first
DashboardInit ==
  /\ subjects = << >>
  /\ recentSessions = << >>
  /\ loading = TRUE
  /\ dashPc = "init"
  /\ historyReq = "none"

\* the Dashboard is not shown and there is no history
DashboardIdle ==
  /\ DashboardInit
  /\ history = << >>

\* the History screen as it is rendered first
HistoryInit ==
  /\ sessions = << >>
  /\ historyLoading = TRUE
  /\ historyPc = "init"
  /\ deleteReqs = EmptyBag
  /\ lastConfirm = "none"

\* the Dashboard's quiz generation as it is rendered first
StartQuizInit ==
  /\ selectedSubject = ""
  /\ isGenerating = FALSE
  /\ generateReqs = EmptyBag

\* the Results screen as it is rendered first
ResultsInit ==
  /\ results = << >>
  /\ resultsLoading = TRUE
  /\ resultsPc = "init"
  /\ navState = << >>

\* neither the History screen nor the Results screen is shown and no quiz
\* is being generated
PagesIdle ==
  /\ HistoryInit
  /\ StartQuizInit
  /\ ResultsInit

\* ------------------------------------------------------------ the backend
\* the generation job: generating -> ready, or generating -> failed
GenerationJob ==
  /\ session = "generating"
  /\ \/ /\ session' = "ready"
        /\ error_message' = error_message
     \/ /\ session' = "failed"
        /\ error_message' \in ErrorMessages
  /\ UNCHANGED <<mounted, location, interval, timer, reactState, statusReqs,
                 quizReqs, submitReqs, quiz, elsewhere, clocks>>

\* GET /quiz-status/{id}: the status at the moment the backend answers
StatusServed ==
  /\ BagIn("pending", statusReqs)
  /\ statusReqs' = (statusReqs (-) One("pending")) (+) One(session)
  /\ UNCHANGED <<mounted, location, interval, timer, reactState, quizReqs,
                 submitReqs, session, quiz, error_message, elsewhere, clocks>>

\* GET /quiz/{id} answers with the quiz when the status is ready or later
QuizServed == session \in {"ready", "completed"}

\* POST /submit-answers grades a ready session and completes it
SubmitServed ==
  /\ session = "ready"
  /\ session' = "completed"

\* a request that is rejected was refused by the backend, or was lost on
\* the way there, or its response was lost on the way back
SubmitLost ==
  \/ session' = session
  \/ SubmitServed

\* --------------------------------------------------------------- the screen
\* SeedTime with the conversion to seconds left out
SeedTimeInMinutes(payload) ==
  IF payload.estimated_time_minutes \in {Null, 0}
    THEN DefaultMinutes
    ELSE payload.estimated_time_minutes

\* const estimatedMinutes = estimated_time_minutes || 20; estimatedMinutes * 60
SeedTime(payload) ==
  LET estimatedMinutes ==
        IF payload.estimated_time_minutes \in {Null, 0}
          THEN DefaultMinutes
          ELSE payload.estimated_time_minutes
  IN  estimatedMinutes * SecondsPerMinute

\* errorMsg without the fallback for an absent field
errorMsgWithoutFallback(field) ==
  IF field = << >> THEN "undefined" ELSE field[1]

\* statusResponse.data.error_message || 'Unknown error'
errorMsg(field) == IF field = << >> THEN "Unknown error" ELSE field[1]

\* setError(`Quiz generation failed: ${errorMsg}`)
GenerationFailed(field) == <<"Quiz generation failed: ", errorMsg(field)>>

\* setError(`Failed to load quiz: ${detail or message of the rejection}`)
LoadFailed == <<"Failed to load quiz: ", "detail">>

\* the view the component renders
LoadingView == quizStatus \in {"loading", "generating"}

\* ErrorView without the test of the error state
ErrorViewOfFailedOnly == ~LoadingView /\ quizStatus = "failed"

ErrorView == ~LoadingView /\ (error # << >> \/ quizStatus = "failed")

NotReadyView == ~LoadingView /\ ~ErrorView /\ quizData = << >>

QuizView == ~LoadingView /\ ~ErrorView /\ quizData # << >>

isLastQuestion == currentQuestionIndex = NumQuestions - 1

\* the component's state is gone with the component: what an unmounted
\* screen held is no longer readable by anything
StateDiscarded ==
  /\ quizStatus' = "loading"
  /\ quizData' = << >>
  /\ currentQuestionIndex' = 0
  /\ answers' = EmptyAnswers
  /\ timeRemaining' = Null
  /\ isSubmitting' = FALSE
  /\ error' = << >>

Init ==
  /\ mounted = "init"
  /\ location = <<"quiz", sessionId>>
  /\ interval = FALSE
  /\ timer = FALSE
  /\ quizStatus = "loading"
  /\ quizData = << >>
  /\ currentQuestionIndex = 0
  /\ answers = EmptyAnswers
  /\ timeRemaining = Null
  /\ isSubmitting = FALSE
  /\ error = << >>
  /\ statusReqs = EmptyBag
  /\ quizReqs = 0
  /\ submitReqs = EmptyBag
  /\ session \in Statuses
  /\ quiz \in QuizPayloads
  /\ error_message \in IF session = "failed" THEN ErrorMessages ELSE {<< >>}
  /\ BackendIdle
  /\ DashboardIdle
  /\ PagesIdle
  /\ now = 0
  /\ pollClock = 0
  /\ timerAge = 0

\* the poll effect: checkQuizStatus() up to its await, then setInterval
Mount ==
  /\ mounted = "init"
  /\ mounted' = "yes"
  /\ statusReqs' = statusReqs (+) One("pending")
  /\ interval' = TRUE
  /\ pollClock' = 0
  /\ UNCHANGED <<location, timer, reactState, quizReqs, submitReqs, session,
                 quiz, error_message, elsewhere, now, timerAge>>

\* the interval fires: checkQuizStatus() up to its await
PollTick ==
  /\ interval
  /\ BagCardinality(statusReqs) < MaxInFlight
  /\ statusReqs' = statusReqs (+) One("pending")
  /\ pollClock' = 0
  /\ UNCHANGED <<mounted, location, interval, timer, reactState, quizReqs,
                 submitReqs, session, quiz, error_message, elsewhere, now,
                 timerAge>>

\* SubmitBody with the answers left behind
SubmitBodyWithoutAnswers(id, given) ==
  [quiz_id |-> id, user_id |-> Null, answers |-> EmptyAnswers]

\* quizAPI.submitAnswers(sessionId, answers): the body of the POST
SubmitBody(id, given) == [quiz_id |-> id, user_id |-> Null, answers |-> given]

\* handleSubmitQuiz() up to its await: setIsSubmitting(true), submitAnswers
HandleSubmitQuiz(auto) ==
  /\ BagCardinality(submitReqs) < MaxInFlight
  /\ isSubmitting' = TRUE
  /\ submitReqs' = submitReqs (+)
       One([body |-> SubmitBody(sessionId, answers), auto |-> auto])

\* the countdown effect, run by React when timeRemaining has changed to t:
\* the cleanup clears the previous timeout, then a timeout is armed or the
\* quiz is submitted
CountdownEffect(t) ==
  /\ timerAge' = 0
  /\ IF t > 0
       THEN /\ timer' = TRUE
            /\ UNCHANGED <<isSubmitting, submitReqs>>
       ELSE /\ timer' = FALSE
            /\ IF t = 0
                 THEN HandleSubmitQuiz(TRUE)
                 ELSE UNCHANGED <<isSubmitting, submitReqs>>

\* StatusResponse with the quiz fetched for a completed session as well
StatusResponseFetchesCompleted(status) ==
  /\ status \in Statuses
  /\ BagIn(status, statusReqs)
  /\ statusReqs' = statusReqs (-) One(status)
  /\ IF mounted = "yes"
       THEN /\ quizStatus' = status
            /\ error' = IF status = "failed"
                          THEN GenerationFailed(error_message)
                          ELSE error
       ELSE UNCHANGED <<quizStatus, error>>
  /\ IF status \in {"ready", "completed"}
       THEN /\ quizReqs < MaxInFlight
            /\ quizReqs' = quizReqs + 1
       ELSE UNCHANGED quizReqs
  /\ UNCHANGED <<mounted, location, interval, timer, quizData,
                 currentQuestionIndex, answers, timeRemaining, isSubmitting,
                 submitReqs, session, quiz, error_message, elsewhere, clocks>>

\* checkQuizStatus after the status request resolved
StatusResponse(status) ==
  /\ status \in Statuses
  /\ BagIn(status, statusReqs)
  /\ statusReqs' = statusReqs (-) One(status)
  /\ IF mounted = "yes"
       THEN /\ quizStatus' = status
            /\ error' = IF status = "failed"
                          THEN GenerationFailed(error_message)
                          ELSE error
       ELSE UNCHANGED <<quizStatus, error>>
  /\ IF status = "ready"
       THEN /\ quizReqs < MaxInFlight
            /\ quizReqs' = quizReqs + 1
       ELSE UNCHANGED quizReqs
  /\ UNCHANGED <<mounted, location, interval, timer, quizData,
                 currentQuestionIndex, answers, timeRemaining, isSubmitting,
                 submitReqs, session, quiz, error_message, elsewhere, clocks>>

\* StatusError with the poll given up on the first failure
StatusErrorStopsPolling(r) ==
  /\ BagIn(r, statusReqs)
  /\ statusReqs' = statusReqs (-) One(r)
  /\ error' = IF mounted = "yes" THEN LoadFailed ELSE error
  /\ interval' = FALSE
  /\ UNCHANGED <<mounted, location, timer, quizStatus, quizData,
                 currentQuestionIndex, answers, timeRemaining, isSubmitting,
                 quizReqs, submitReqs, session, quiz, error_message, elsewhere,
                 clocks>>

\* checkQuizStatus, the catch block, after the status request rejected
StatusError(r) ==
  /\ BagIn(r, statusReqs)
  /\ statusReqs' = statusReqs (-) One(r)
  /\ error' = IF mounted = "yes" THEN LoadFailed ELSE error
  /\ UNCHANGED <<mounted, location, interval, timer, quizStatus, quizData,
                 currentQuestionIndex, answers, timeRemaining, isSubmitting,
                 quizReqs, submitReqs, session, quiz, error_message, elsewhere,
                 clocks>>

\* checkQuizStatus after the quiz request resolved: setQuizData, then the
\* effect on quizData seeds the countdown, then the countdown effect runs if
\* timeRemaining changed
QuizResponse ==
  /\ quizReqs > 0
  /\ QuizServed
  /\ quizReqs' = quizReqs - 1
  /\ IF mounted = "yes"
       THEN /\ quizData' = <<quiz>>
            /\ IF quiz.quiz_metadata
                 THEN /\ timeRemaining' = SeedTime(quiz)
                      /\ IF SeedTime(quiz) # timeRemaining
                           THEN CountdownEffect(SeedTime(quiz))
                           ELSE UNCHANGED <<timer, timerAge, isSubmitting,
                                            submitReqs>>
                 ELSE UNCHANGED <<timeRemaining, timer, timerAge, isSubmitting,
                                  submitReqs>>
       ELSE UNCHANGED <<quizData, timeRemaining, timer, timerAge, isSubmitting,
                        submitReqs>>
  /\ UNCHANGED <<mounted, location, interval, quizStatus, currentQuestionIndex,
                 answers, error, statusReqs, session, quiz, error_message,
                 elsewhere, now, pollClock>>

\* checkQuizStatus, the catch block, after the quiz request rejected
QuizError ==
  /\ quizReqs > 0
  /\ quizReqs' = quizReqs - 1
  /\ error' = IF mounted = "yes" THEN LoadFailed ELSE error
  /\ UNCHANGED <<mounted, location, interval, timer, quizStatus, quizData,
                 currentQuestionIndex, answers, timeRemaining, isSubmitting,
                 statusReqs, submitReqs, session, quiz, error_message,
                 elsewhere, clocks>>

\* the timeout fires: setTimeRemaining(timeRemaining - 1), then the
\* countdown effect runs for the new value
CountdownTick ==
  /\ timer
  /\ timeRemaining > 0
  /\ SeedTime(quizData[1]) - timeRemaining < MaxTicks
  /\ timeRemaining' = timeRemaining - 1
  /\ CountdownEffect(timeRemaining - 1)
  /\ UNCHANGED <<mounted, location, interval, quizStatus, quizData,
                 currentQuestionIndex, answers, error, statusReqs, quizReqs,
                 session, quiz, error_message, elsewhere, now, pollClock>>

\* a click on Submit Quiz: rendered on the last question, disabled while
\* isSubmitting
ClickSubmit ==
  /\ mounted = "yes"
  /\ QuizView
  /\ isLastQuestion
  /\ ~isSubmitting
  /\ HandleSubmitQuiz(FALSE)
  /\ UNCHANGED <<mounted, location, interval, timer, quizStatus, quizData,
                 currentQuestionIndex, answers, timeRemaining, error,
                 statusReqs, quizReqs, session, quiz, error_message, elsewhere,
                 clocks>>

\* handleSubmitQuiz after the request resolved: navigate to the results,
\* which unmounts the screen and runs the cleanups of its effects
SubmitResponse(r) ==
  /\ BagIn(r, submitReqs)
  /\ SubmitServed
  /\ submitReqs' = submitReqs (-) One(r)
  /\ mounted' = "no"
  /\ location' = ResultsPath(sessionId)
  /\ interval' = FALSE
  /\ timer' = FALSE
  /\ StateDiscarded
  /\ UNCHANGED <<statusReqs, quizReqs, quiz, error_message, elsewhere, clocks>>

\* SubmitError with the button left disabled
SubmitErrorKeepsSubmitting(r) ==
  /\ BagIn(r, submitReqs)
  /\ submitReqs' = submitReqs (-) One(r)
  /\ SubmitLost
  /\ UNCHANGED <<mounted, location, interval, timer, reactState, statusReqs,
                 quizReqs, quiz, error_message, elsewhere, clocks>>

\* handleSubmitQuiz, the catch block: alert, setIsSubmitting(false)
SubmitError(r) ==
  /\ BagIn(r, submitReqs)
  /\ submitReqs' = submitReqs (-) One(r)
  /\ SubmitLost
  /\ isSubmitting' = IF mounted = "yes" THEN FALSE ELSE isSubmitting
  /\ UNCHANGED <<mounted, location, interval, timer, quizStatus, quizData,
                 currentQuestionIndex, answers, timeRemaining, error,
                 statusReqs, quizReqs, quiz, error_message, elsewhere, clocks>>

\* handleNextQuestion without its test of the index, on a Next button that
\* is rendered on every question
handleNextQuestionUnguarded ==
  /\ mounted = "yes"
  /\ QuizView
  /\ currentQuestionIndex < NumQuestions
  /\ currentQuestionIndex' = currentQuestionIndex + 1
  /\ UNCHANGED <<mounted, location, interval, timer, quizStatus, quizData,
                 answers, timeRemaining, isSubmitting, error, statusReqs,
                 quizReqs, submitReqs, session, quiz, error_message, elsewhere,
                 clocks>>

\* a click on Next: rendered when the question is not the last one
handleNextQuestion ==
  /\ mounted = "yes"
  /\ QuizView
  /\ ~isLastQuestion
  /\ currentQuestionIndex < NumQuestions - 1
  /\ currentQuestionIndex' = currentQuestionIndex + 1
  /\ UNCHANGED <<mounted, location, interval, timer, quizStatus, quizData,
                 answers, timeRemaining, isSubmitting, error, statusReqs,
                 quizReqs, submitReqs, session, quiz, error_message, elsewhere,
                 clocks>>

\* a click on Previous: disabled on the first question
handlePreviousQuestion ==
  /\ mounted = "yes"
  /\ QuizView
  /\ currentQuestionIndex > 0
  /\ currentQuestionIndex' = currentQuestionIndex - 1
  /\ UNCHANGED <<mounted, location, interval, timer, quizStatus, quizData,
                 answers, timeRemaining, isSubmitting, error, statusReqs,
                 quizReqs, submitReqs, session, quiz, error_message, elsewhere,
                 clocks>>

\* handleAnswerChange without the spread of the previous mapping
handleAnswerChangeWithoutSpread(questionId, answer) ==
  /\ mounted = "yes"
  /\ QuizView
  /\ questionId = QuestionId(currentQuestionIndex)
  /\ answers' = [q \in {questionId} |-> answer]
  /\ UNCHANGED <<mounted, location, interval, timer, quizStatus, quizData,
                 currentQuestionIndex, timeRemaining, isSubmitting, error,
                 statusReqs, quizReqs, submitReqs, session, quiz,
                 error_message, elsewhere, clocks>>

\* handleAnswerChange keyed by the position of the question, not by its id
handleAnswerChangeByIndex(questionId, answer) ==
  /\ mounted = "yes"
  /\ QuizView
  /\ questionId = QuestionId(currentQuestionIndex)
  /\ answers' = [q \in DOMAIN answers \cup {currentQuestionIndex} |->
                   IF q = currentQuestionIndex THEN answer ELSE answers[q]]
  /\ UNCHANGED <<mounted, location, interval, timer, quizStatus, quizData,
                 currentQuestionIndex, timeRemaining, isSubmitting, error,
                 statusReqs, quizReqs, submitReqs, session, quiz,
                 error_message, elsewhere, clocks>>

\* a click on an option, or typing in the textarea, of the current question:
\* setAnswers(prev => ({ ...prev, [questionId]: answer }))
handleAnswerChange(questionId, answer) ==
  /\ mounted = "yes"
  /\ QuizView
  /\ questionId = QuestionId(currentQuestionIndex)
  /\ answers' = [q \in DOMAIN answers \cup {questionId} |->
                   IF q = questionId THEN answer ELSE answers[q]]
  /\ UNCHANGED <<mounted, location, interval, timer, quizStatus, quizData,
                 currentQuestionIndex, timeRemaining, isSubmitting, error,
                 statusReqs, quizReqs, submitReqs, session, quiz,
                 error_message, elsewhere, clocks>>

\* navigation away: the cleanups of the poll effect and the countdown effect
Unmount ==
  /\ mounted = "yes"
  /\ mounted' = "no"
  /\ location' = <<"other">>
  /\ interval' = FALSE
  /\ timer' = FALSE
  /\ StateDiscarded
  /\ UNCHANGED <<statusReqs, quizReqs, submitReqs, session, quiz,
                 error_message, elsewhere, clocks>>

Next ==
  \/ Mount
  \/ PollTick
  \/ \E status \in Statuses : StatusResponse(status)
  \/ \E r \in BagToSet(statusReqs) : StatusError(r)
  \/ QuizResponse
  \/ QuizError
  \/ CountdownTick
  \/ ClickSubmit
  \/ \E r \in BagToSet(submitReqs) : SubmitResponse(r)
  \/ \E r \in BagToSet(submitReqs) : SubmitError(r)
  \/ handleNextQuestion
  \/ handlePreviousQuestion
  \/ Unmount
  \/ GenerationJob
  \/ StatusServed

Spec == Init /\ [][Next]_vars



\* ------------------------------------------------------ the timed scenario
\* The same handlers on a clock of whole seconds: the interval fires every
\* PollPeriod seconds, the timeout TickPeriod seconds after it was armed.
\* The session is ready from the start, every request is answered within
\* the second it was sent in, nobody clicks and nobody navigates away.
InitTimed ==
  /\ Init
  /\ session = "ready"
  /\ quiz = [quiz_metadata |-> TRUE, estimated_time_minutes |-> 1]

TimedPollTick ==
  /\ pollClock = PollPeriod
  /\ PollTick

TimedCountdownTick ==
  /\ timerAge = TickPeriod
  /\ CountdownTick

AdvanceSecond ==
  /\ mounted = "yes"
  /\ now < MaxTime
  /\ pollClock < PollPeriod
  /\ timer => timerAge < TickPeriod
  /\ statusReqs = EmptyBag
  /\ quizReqs = 0
  /\ now' = now + 1
  /\ pollClock' = pollClock + 1
  /\ timerAge' = IF timer THEN timerAge + 1 ELSE timerAge
  /\ UNCHANGED <<mounted, location, interval, timer, reactState, statusReqs,
                 quizReqs, submitReqs, session, quiz, error_message,
                 elsewhere>>

TimedNext ==
  \/ Mount
  \/ TimedPollTick
  \/ TimedCountdownTick
  \/ StatusServed
  \/ \E status \in Statuses : StatusResponse(status)
  \/ QuizResponse
  \/ AdvanceSecond

SpecTimed == InitTimed /\ [][TimedNext]_vars

\* ------------------------------------------------- the screen with answers
\* The screen while the user answers: the quiz is loaded, the poller keeps
\* running with every poll answered before the next one, and the countdown
\* is followed through its last LastSeconds seconds, up to the automatic
\* submission.
InitAnswers ==
  /\ mounted = "yes"
  /\ location = <<"quiz", sessionId>>
  /\ interval = TRUE
  /\ timer = TRUE
  /\ quizStatus = "ready"
  /\ quiz = [quiz_metadata |-> TRUE, estimated_time_minutes |-> 1]
  /\ quizData = <<quiz>>
  /\ currentQuestionIndex = 0
  /\ answers = EmptyAnswers
  /\ timeRemaining = LastSeconds
  /\ isSubmitting = FALSE
  /\ error = << >>
  /\ statusReqs = EmptyBag
  /\ quizReqs = 0
  /\ submitReqs = EmptyBag
  /\ session = "ready"
  /\ error_message = << >>
  /\ BackendIdle
  /\ DashboardIdle
  /\ PagesIdle
  /\ now = 0
  /\ pollClock = 0
  /\ timerAge = 0

LastCountdownTick ==
  /\ timeRemaining <= LastSeconds
  /\ CountdownTick

\* the interval fires after the previous poll was answered
AnsweredPollTick ==
  /\ statusReqs = EmptyBag
  /\ quizReqs = 0
  /\ PollTick

AnswersNext ==
  \/ AnsweredPollTick
  \/ StatusServed
  \/ \E status \in Statuses : StatusResponse(status)
  \/ \E r \in BagToSet(statusReqs) : StatusError(r)
  \/ QuizResponse
  \/ QuizError
  \/ LastCountdownTick
  \/ ClickSubmit
  \/ \E r \in BagToSet(submitReqs) : SubmitResponse(r)
  \/ \E r \in BagToSet(submitReqs) : SubmitError(r)
  \/ handleNextQuestion
  \/ handlePreviousQuestion
  \/ \E q \in 1..NumQuestions, a \in AnswerValues : handleAnswerChange(q, a)
  \/ Unmount

SpecAnswers == InitAnswers /\ [][AnswersNext]_vars

\* ----------------------------------------------------- the Session Store
\* The backend as the specification describes it: the store, the generation
\* job, the query endpoints, grading and deletion. The Quiz screen stays as
\* it was rendered first.
screen == <<mounted, location, interval, timer, reactState, statusReqs,
            quizReqs, submitReqs, session, quiz, error_message, clocks>>

InitBackend ==
  /\ Init
  /\ session = "generating"
  /\ quiz = [quiz_metadata |-> TRUE, estimated_time_minutes |-> 1]

\* the store with the record of id replaced
Written(id, record) ==
  [i \in DOMAIN store \cup {id} |-> IF i = id THEN record ELSE store[i]]

\* the store with the record of id removed
Removed(id) == [i \in DOMAIN store \ {id} |-> store[i]]

NotFound == <<"NotFound">>
NotReady == <<"NotReady">>
Conflict == <<"Conflict">>
InvalidArgument == <<"InvalidArgument">>

\* POST /generate-quiz: an unknown subject is refused before any session is
\* created; otherwise a session is created in generating under a new id,
\* which is the answer
GenerateReply(id, subject) ==
  IF subject \in Subjects THEN <<"ok", id>> ELSE InvalidArgument

GenerateQuiz(id, subject) ==
  /\ id \notin issued
  /\ IF subject \in Subjects
       THEN /\ store' = Written(id, Session("generating", << >>, << >>, << >>))
            /\ issued' = issued \cup {id}
       ELSE UNCHANGED <<store, issued>>
  /\ UNCHANGED <<jobRuns, returned, inflight, submitLog, screen,
                 dashboard, pages>>

\* RunGenerationJob with the status written before the quiz
RunGenerationJobStatusFirst(id) ==
  /\ id \in issued
  /\ jobRuns[id] = 0
  /\ jobRuns' = [jobRuns EXCEPT ![id] = 1]
  /\ IF id \in DOMAIN store
       THEN \/ store' = Written(id, Session("ready", << >>, << >>, << >>))
            \/ store' = Written(id, Session("failed", << >>, << >>, <<"boom">>))
       ELSE store' = store
  /\ UNCHANGED <<issued, returned, inflight, submitLog, screen,
                 dashboard, pages>>

\* RunGenerationJob ending without a word when the generation fails
RunGenerationJobGivesUp(id) ==
  /\ id \in issued
  /\ jobRuns[id] = 0
  /\ jobRuns' = [jobRuns EXCEPT ![id] = 1]
  /\ IF id \in DOMAIN store
       THEN \/ store' = Written(id, Session("ready", <<"quiz">>, << >>, << >>))
            \/ store' = store
       ELSE store' = store
  /\ UNCHANGED <<issued, returned, inflight, submitLog, screen,
                 dashboard, pages>>

\* RunGenerationJob writing its outcome whether the record exists or not
RunGenerationJobResurrects(id) ==
  /\ id \in issued
  /\ jobRuns[id] = 0
  /\ jobRuns' = [jobRuns EXCEPT ![id] = 1]
  /\ \/ store' = Written(id, Session("ready", <<"quiz">>, << >>, << >>))
     \/ store' = Written(id, Session("failed", << >>, << >>, <<"boom">>))
  /\ UNCHANGED <<issued, returned, inflight, submitLog, screen,
                 dashboard, pages>>

\* the generation job of a session, run once: it writes the quiz and ready
\* in one step, or error_message and failed in one step; the outcome of a
\* job whose session was deleted meanwhile is dropped
RunGenerationJob(id) ==
  /\ id \in issued
  /\ jobRuns[id] = 0
  /\ jobRuns' = [jobRuns EXCEPT ![id] = 1]
  /\ IF id \in DOMAIN store
       THEN \/ store' = Written(id, Session("ready", <<"quiz">>, << >>, << >>))
            \/ store' = Written(id, Session("failed", << >>, << >>, <<"boom">>))
       ELSE store' = store
  /\ UNCHANGED <<issued, returned, inflight, submitLog, screen,
                 dashboard, pages>>

\* GET /quiz-status/{id}: the status, with error_message when failed
StatusReply(id) ==
  IF id \in DOMAIN store
    THEN <<"ok", store[id].status, store[id].error_message>>
    ELSE NotFound

\* a status query is answered, and the answer is noted
StatusQuery(id) ==
  /\ returned' = [returned EXCEPT ![id] = IF StatusReply(id) = NotFound
                                            THEN @
                                            ELSE StatusReply(id)[2]]
  /\ UNCHANGED <<store, issued, jobRuns, inflight, submitLog, screen,
                 dashboard, pages>>

\* GET /quiz/{id}: the quiz once the status is ready or later
QuizReply(id) ==
  IF id \notin DOMAIN store
    THEN NotFound
    ELSE IF store[id].status \in {"ready", "completed"}
           THEN <<"ok", store[id].quiz>>
           ELSE NotReady

\* GET /results/{id}: the grading result once the status is completed
ResultReply(id) ==
  IF id \notin DOMAIN store
    THEN NotFound
    ELSE IF store[id].status = "completed"
           THEN <<"ok", store[id].result>>
           ELSE NotReady

\* POST /submit-answers arrives at the backend
SubmitReceived(id) ==
  /\ inflight[id] + Len(submitLog[id]) < MaxSubmits
  /\ inflight' = [inflight EXCEPT ![id] = @ + 1]
  /\ UNCHANGED <<store, issued, jobRuns, returned, submitLog, screen,
                 dashboard, pages>>

\* the outcome of a submit-answers request, noted with whether another
\* request for the session was in flight when it was served
Outcome(id, body) == [body |-> body, racing |-> inflight[id] > 1]

\* Grade taking any session to completed, whatever its status
GradeAnyStatus(id) ==
  /\ inflight[id] > 0
  /\ inflight' = [inflight EXCEPT ![id] = @ - 1]
  /\ IF id \notin DOMAIN store
       THEN /\ submitLog' = [submitLog EXCEPT
                               ![id] = Append(@, Outcome(id, NotFound))]
            /\ store' = store
       ELSE IF store[id].status # "completed"
         THEN /\ store' = Written(id, Session("completed", store[id].quiz,
                                              <<Len(submitLog[id]) + 1>>,
                                              << >>))
              /\ submitLog' = [submitLog EXCEPT
                                 ![id] = Append(@, Outcome(id, <<"ok">>))]
         ELSE /\ submitLog' = [submitLog EXCEPT
                                 ![id] = Append(@, Outcome(id, Conflict))]
              /\ store' = store
  /\ UNCHANGED <<issued, jobRuns, returned, screen, dashboard, pages>>

\* Grade grading a completed session again
GradeAgain(id) ==
  /\ inflight[id] > 0
  /\ inflight' = [inflight EXCEPT ![id] = @ - 1]
  /\ IF id \notin DOMAIN store
       THEN /\ submitLog' = [submitLog EXCEPT
                               ![id] = Append(@, Outcome(id, NotFound))]
            /\ store' = store
       ELSE IF store[id].status \in {"ready", "completed"}
         THEN /\ store' = Written(id, Session("completed", store[id].quiz,
                                              <<Len(submitLog[id]) + 1>>,
                                              << >>))
              /\ submitLog' = [submitLog EXCEPT
                                 ![id] = Append(@, Outcome(id, <<"ok">>))]
         ELSE /\ submitLog' = [submitLog EXCEPT
                                 ![id] = Append(@, Outcome(id, NotReady))]
              /\ store' = store
  /\ UNCHANGED <<issued, jobRuns, returned, screen, dashboard, pages>>

\* the Grading Engine serves a submit-answers request: one compare-and-set
\* from ready to completed that stores the result of this submission; a
\* completed session answers Conflict
Grade(id) ==
  /\ inflight[id] > 0
  /\ inflight' = [inflight EXCEPT ![id] = @ - 1]
  /\ IF id \notin DOMAIN store
       THEN /\ submitLog' = [submitLog EXCEPT
                               ![id] = Append(@, Outcome(id, NotFound))]
            /\ store' = store
       ELSE IF store[id].status = "ready"
         THEN /\ store' = Written(id, Session("completed", store[id].quiz,
                                              <<Len(submitLog[id]) + 1>>,
                                              << >>))
              /\ submitLog' = [submitLog EXCEPT
                                 ![id] = Append(@, Outcome(id, <<"ok">>))]
         ELSE LET refusal == IF store[id].status = "completed"
                               THEN Conflict
                               ELSE NotReady
              IN  /\ submitLog' = [submitLog EXCEPT
                                     ![id] = Append(@, Outcome(id, refusal))]
                  /\ store' = store
  /\ UNCHANGED <<issued, jobRuns, returned, screen, dashboard, pages>>

\* DELETE /sessions/{id}: the record is removed; an id without a record is
\* a success that changes nothing
DeleteReply(id) == <<"ok">>

DeleteSession(id) ==
  /\ store' = Removed(id)
  /\ UNCHANGED <<issued, jobRuns, returned, inflight, submitLog, screen,
                 dashboard, pages>>

BackendNext ==
  \/ \E id \in SessionIds, subject \in Subjects \cup {"Alchemy"} :
       GenerateQuiz(id, subject)
  \/ \E id \in SessionIds : RunGenerationJob(id)
  \/ \E id \in SessionIds : StatusQuery(id)
  \/ \E id \in SessionIds : SubmitReceived(id)
  \/ \E id \in SessionIds : Grade(id)
  \/ \E id \in SessionIds : DeleteSession(id)

SpecBackend == InitBackend /\ [][BackendNext]_vars

\* the generation job of an accepted session is run sooner or later
SpecBackendFair ==
  /\ SpecBackend
  /\ \A id \in SessionIds : WF_vars(RunGenerationJob(id))

\* ------------------------------------------------------------ the Dashboard
\* The Dashboard loading its data: the subjects, then the history, of which
\* it keeps the first RecentCount sessions. A session of the history is
\* given by the rank of its created_at, 1 being the oldest.
Histories ==
  {h \in UNION {[1..n -> 1..MaxHistory] : n \in 0..MaxHistory} :
     \A i, j \in DOMAIN h : i # j => h[i] # h[j]}

\* the subjects of the /subjects response
SubjectList == <<"Mathematics">>

Min(a, b) == IF a < b THEN a ELSE b

\* Array.prototype.slice(from, to) for 0 <= from
Slice(array, from, to) ==
  LET end == Min(to, Len(array))
  IN  IF end <= from
        THEN << >>
        ELSE [i \in 1..(end - from) |-> array[from + i]]

\* the sessions ordered by created_at, most recent first
NewestFirst(listed) ==
  [i \in DOMAIN listed |->
     CHOOSE x \in {listed[k] : k \in DOMAIN listed} :
       Cardinality({k \in DOMAIN listed : listed[k] > x}) = i - 1]

\* Recent with a sort by created_at before the slice
RecentSorted(listed) == Slice(NewestFirst(listed), 0, RecentCount)

\* historyResponse.data.sessions.slice(0, 5)
Recent(listed) == Slice(listed, 0, RecentCount)

\* the Quiz screen is not shown
ScreenIdle ==
  /\ mounted = "init"
  /\ location = <<"dashboard">>
  /\ interval = FALSE
  /\ timer = FALSE
  /\ quizStatus = "loading"
  /\ quizData = << >>
  /\ currentQuestionIndex = 0
  /\ answers = EmptyAnswers
  /\ timeRemaining = Null
  /\ isSubmitting = FALSE
  /\ error = << >>
  /\ statusReqs = EmptyBag
  /\ quizReqs = 0
  /\ submitReqs = EmptyBag
  /\ session = "generating"
  /\ quiz = [quiz_metadata |-> TRUE, estimated_time_minutes |-> 1]
  /\ error_message = << >>
  /\ now = 0
  /\ pollClock = 0
  /\ timerAge = 0

InitDashboard ==
  /\ ScreenIdle
  /\ BackendIdle
  /\ PagesIdle
  /\ DashboardInit
  /\ history \in Histories

\* the effect of the mount: loadDashboardData() up to its first await
LoadDashboardData ==
  /\ dashPc = "init"
  /\ loading' = TRUE
  /\ dashPc' = "subjects"
  /\ UNCHANGED <<subjects, recentSessions, historyReq, history, screen,
                 backend, pages>>

\* getSubjects resolved: setSubjects, then getHistory is requested
SubjectsResponse ==
  /\ dashPc = "subjects"
  /\ subjects' = SubjectList
  /\ historyReq' = "pending"
  /\ dashPc' = "history"
  /\ UNCHANGED <<recentSessions, loading, history, screen, backend, pages>>

\* getSubjects rejected: the outer catch, then finally
SubjectsError ==
  /\ dashPc = "subjects"
  /\ loading' = FALSE
  /\ dashPc' = "done"
  /\ UNCHANGED <<subjects, recentSessions, historyReq, history, screen,
                 backend, pages>>

\* the network settles the getHistory request
HistorySettled ==
  /\ historyReq = "pending"
  /\ historyReq' \in {"ok", "error"}
  /\ UNCHANGED <<subjects, recentSessions, loading, dashPc, history, screen,
                 backend, pages>>

\* getHistory resolved: setRecentSessions of the slice, then finally
HistoryResponse ==
  /\ dashPc = "history"
  /\ historyReq = "ok"
  /\ recentSessions' = Recent(history)
  /\ loading' = FALSE
  /\ dashPc' = "done"
  /\ UNCHANGED <<subjects, historyReq, history, screen, backend, pages>>

\* getHistory rejected: the inner catch, then finally
HistoryError ==
  /\ dashPc = "history"
  /\ historyReq = "error"
  /\ recentSessions' = << >>
  /\ loading' = FALSE
  /\ dashPc' = "done"
  /\ UNCHANGED <<subjects, historyReq, history, screen, backend, pages>>

DashboardNext ==
  \/ LoadDashboardData
  \/ SubjectsResponse
  \/ SubjectsError
  \/ HistorySettled
  \/ HistoryResponse
  \/ HistoryError

SpecDashboard == InitDashboard /\ [][DashboardNext]_vars

\* ------------------------------------------------------- the History screen
\* The History screen (frontend/src/pages/History.jsx): the list is loaded
\* once, and every Delete button starts a handler that awaits the request
\* and then writes the list. A session is given as on the Dashboard.
ShortHistories ==
  {h \in UNION {[1..n -> 1..MaxListed] : n \in 0..MaxListed} :
     \A i, j \in DOMAIN h : i # j => h[i] # h[j]}

\* the session ids of a list
Range(list) == {list[i] : i \in DOMAIN list}

\* list.filter(session => session.session_id !== id)
Without(list, id) == SelectSeq(list, LAMBDA s : s # id)

\* the Quiz screen but for the route
quizScreen == <<mounted, interval, timer, reactState, statusReqs, quizReqs,
                submitReqs, session, quiz, error_message, clocks>>

InitHistory ==
  /\ ScreenIdle
  /\ BackendIdle
  /\ PagesIdle
  /\ DashboardInit
  /\ history \in ShortHistories

\* the route /history is shown: the effect of the mount, loadHistory() up
\* to its await
LoadHistory ==
  /\ historyPc = "init"
  /\ location = <<"dashboard">>
  /\ historyPc' = "loading"
  /\ location' = <<"history">>
  /\ UNCHANGED <<sessions, historyLoading, deleteReqs, lastConfirm,
                 quizScreen, backend, dashboard, startQuiz, resultsPage>>

\* getHistory resolved: setSessions, then finally
LoadHistoryResponse ==
  /\ historyPc = "loading"
  /\ sessions' = history
  /\ historyLoading' = FALSE
  /\ historyPc' = "shown"
  /\ UNCHANGED <<deleteReqs, lastConfirm, screen, backend, dashboard,
                 startQuiz, resultsPage>>

\* getHistory rejected: catch, then finally
LoadHistoryError ==
  /\ historyPc = "loading"
  /\ historyLoading' = FALSE
  /\ historyPc' = "shown"
  /\ UNCHANGED <<sessions, deleteReqs, lastConfirm, screen, backend,
                 dashboard, startQuiz, resultsPage>>

\* a click on the Delete button of a displayed session: handleDeleteSession
\* up to its await. The handler is the one of the render that is shown, so
\* the sessions it will filter are the sessions of that render.
handleDeleteSession(id, accepted) ==
  /\ historyPc = "shown"
  /\ id \in Range(sessions)
  /\ lastConfirm' = IF accepted THEN "accepted" ELSE "declined"
  /\ IF accepted
       THEN /\ BagCardinality(deleteReqs) < MaxInFlight
            /\ deleteReqs' = deleteReqs (+) One([id |-> id, seen |-> sessions])
       ELSE deleteReqs' = deleteReqs
  /\ UNCHANGED <<sessions, historyLoading, historyPc, screen, backend,
                 dashboard, startQuiz, resultsPage>>

\* deleteSession resolved: setSessions of the handler's sessions without
\* the deleted one
DeleteResponse(r) ==
  /\ BagIn(r, deleteReqs)
  /\ deleteReqs' = deleteReqs (-) One(r)
  /\ sessions' = IF historyPc = "shown"
                   THEN Without(r.seen, r.id)
                   ELSE sessions
  /\ UNCHANGED <<historyLoading, historyPc, lastConfirm, screen, backend,
                 dashboard, startQuiz, resultsPage>>

\* deleteSession rejected: the catch, an alert
DeleteError(r) ==
  /\ BagIn(r, deleteReqs)
  /\ deleteReqs' = deleteReqs (-) One(r)
  /\ UNCHANGED <<sessions, historyLoading, historyPc, lastConfirm, screen,
                 backend, dashboard, startQuiz, resultsPage>>

\* the user leaves the History screen: its state is discarded
HistoryUnmount ==
  /\ historyPc \in {"loading", "shown"}
  /\ historyPc' = "gone"
  /\ sessions' = << >>
  /\ historyLoading' = TRUE
  /\ location' = <<"other">>
  /\ UNCHANGED <<deleteReqs, lastConfirm, quizScreen, backend, dashboard,
                 startQuiz, resultsPage>>

HistoryNext ==
  \/ LoadHistory
  \/ LoadHistoryResponse
  \/ LoadHistoryError
  \/ \E id \in 1..MaxListed, accepted \in BOOLEAN :
       handleDeleteSession(id, accepted)
  \/ \E r \in BagToSet(deleteReqs) : DeleteResponse(r)
  \/ \E r \in BagToSet(deleteReqs) : DeleteError(r)
  \/ HistoryUnmount

SpecHistory == InitHistory /\ [][HistoryNext]_vars

\* ------------------------------------------------ the Dashboard: Generate
\* The quiz generation of the Dashboard (Results.jsx, Dashboard): the select,
\* the Generate Quiz button and handleStartQuiz, next to the loading of the
\* Dashboard's data. The form is rendered once loading is false.

\* the button disabled by the subject alone
GenerateDisabledWhileEmpty == selectedSubject = ""

\* disabled={!selectedSubject || isGenerating}
GenerateDisabled == selectedSubject = "" \/ isGenerating

\* navigate(`/quiz/${sessionId}`)
QuizPath(id) == <<"quiz", id>>

\* the Dashboard's state once it is unmounted
DashboardDiscarded ==
  /\ subjects' = << >>
  /\ recentSessions' = << >>
  /\ loading' = TRUE
  /\ selectedSubject' = ""
  /\ isGenerating' = FALSE
  /\ dashPc' = "gone"

\* onChange of the select, which is disabled while isGenerating: the empty
\* option or one of the subjects
SelectSubject(value) ==
  /\ dashPc = "done"
  /\ ~isGenerating
  /\ value \in {""} \cup Range(subjects)
  /\ selectedSubject' = value
  /\ UNCHANGED <<isGenerating, generateReqs, screen, backend, dashboard,
                 historyPage, resultsPage>>

\* a click on the Generate Quiz button: handleStartQuiz up to its await
handleStartQuiz ==
  /\ dashPc = "done"
  /\ ~GenerateDisabled
  /\ BagCardinality(generateReqs) < MaxInFlight
  /\ IF selectedSubject = ""
       THEN UNCHANGED <<isGenerating, generateReqs>>
       ELSE /\ isGenerating' = TRUE
            /\ generateReqs' = generateReqs (+) One(selectedSubject)
  /\ UNCHANGED <<selectedSubject, screen, backend, dashboard, historyPage,
                 resultsPage>>

\* generateQuiz resolved with the session id: navigate to the quiz, which
\* takes the Dashboard off the screen if it is still shown
StartQuizResponse(r, id) ==
  /\ BagIn(r, generateReqs)
  /\ generateReqs' = generateReqs (-) One(r)
  /\ location' = QuizPath(id)
  /\ IF dashPc = "gone"
       THEN UNCHANGED <<subjects, recentSessions, loading, selectedSubject,
                        isGenerating, dashPc>>
       ELSE DashboardDiscarded
  /\ UNCHANGED <<historyReq, history, quizScreen, backend, historyPage,
                 resultsPage>>

\* generateQuiz rejected: the catch, an alert and setIsGenerating(false)
StartQuizError(r) ==
  /\ BagIn(r, generateReqs)
  /\ generateReqs' = generateReqs (-) One(r)
  /\ isGenerating' = FALSE
  /\ UNCHANGED <<selectedSubject, screen, backend, dashboard, historyPage,
                 resultsPage>>

\* the user leaves the Dashboard: its state is discarded
DashboardUnmount ==
  /\ dashPc \in {"subjects", "history", "done"}
  /\ location' = <<"other">>
  /\ DashboardDiscarded
  /\ UNCHANGED <<generateReqs, historyReq, history, quizScreen, backend,
                 historyPage, resultsPage>>

StartQuizNext ==
  \/ \E value \in {""} \cup Subjects : SelectSubject(value)
  \/ handleStartQuiz
  \/ \E r \in BagToSet(generateReqs), id \in SessionIds :
       StartQuizResponse(r, id)
  \/ \E r \in BagToSet(generateReqs) : StartQuizError(r)
  \/ DashboardUnmount

SpecStartQuiz == InitDashboard /\ [][DashboardNext \/ StartQuizNext]_vars

\* ------------------------------------------------------- the Results screen
\* The Results screen (Results.jsx, Results): it is reached from the Quiz
\* screen with the submit response in the navigation state, or from the
\* History screen without one; the effect of the mount takes the results
\* of the navigation state or fetches them.

\* a results payload: quiz_results is << >> when the field is absent, else
\* the score
ResultPayloads ==
  {[quiz_results |-> q] : q \in {<< >>} \cup {<<k>> : k \in 0..NumQuestions}}

\* location.state?.results
NavStates == {<< >>} \cup {<<p>> : p \in ResultPayloads}

\* if (loading)
ResultsLoadingView == resultsPc \in {"fetching", "shown"} /\ resultsLoading

\* if (!results || !results.quiz_results)
NoResultsView ==
  /\ resultsPc \in {"fetching", "shown"}
  /\ ~resultsLoading
  /\ (results = << >> \/ results[1].quiz_results = << >>)

\* the grading result is rendered
GradingView ==
  /\ resultsPc \in {"fetching", "shown"}
  /\ ~resultsLoading
  /\ results # << >>
  /\ results[1].quiz_results # << >>

\* the effect of the mount: the results of the navigation state, or
\* fetchResults() up to its await
ResultsEffect(nav) ==
  /\ navState' = nav
  /\ IF nav # << >>
       THEN /\ results' = nav
            /\ resultsLoading' = FALSE
            /\ resultsPc' = "shown"
       ELSE /\ resultsPc' = "fetching"
            /\ UNCHANGED <<results, resultsLoading>>

\* the route /results/{sessionId} is shown with the navigation state nav
ResultsMount(nav) ==
  /\ resultsPc = "init"
  /\ location = <<"dashboard">>
  /\ location' = ResultsPath(sessionId)
  /\ ResultsEffect(nav)
  /\ UNCHANGED <<quizScreen, backend, dashboard, historyPage, startQuiz>>

\* View Results on the History screen: navigate without a state, which
\* takes the History screen off and mounts the Results screen
handleViewResults(id) ==
  /\ historyPc = "shown"
  /\ resultsPc = "init"
  /\ id \in Range(sessions)
  /\ location' = ResultsPath(id)
  /\ historyPc' = "gone"
  /\ sessions' = << >>
  /\ historyLoading' = TRUE
  /\ ResultsEffect(<< >>)
  /\ UNCHANGED <<deleteReqs, lastConfirm, quizScreen, backend, dashboard,
                 startQuiz>>

\* getResults resolved: setResults, then finally
ResultsResponse(payload) ==
  /\ resultsPc = "fetching"
  /\ results' = <<payload>>
  /\ resultsLoading' = FALSE
  /\ resultsPc' = "shown"
  /\ UNCHANGED <<navState, screen, backend, dashboard, historyPage,
                 startQuiz>>

\* getResults rejected, without the finally
ResultsErrorWithoutFinally ==
  /\ resultsPc = "fetching"
  /\ resultsPc' = "shown"
  /\ UNCHANGED <<results, resultsLoading, navState, screen, backend,
                 dashboard, historyPage, startQuiz>>

\* getResults rejected: catch, then finally
ResultsError ==
  /\ resultsPc = "fetching"
  /\ resultsLoading' = FALSE
  /\ resultsPc' = "shown"
  /\ UNCHANGED <<results, navState, screen, backend, dashboard, historyPage,
                 startQuiz>>

\* the user leaves the Results screen: its state is discarded
ResultsUnmount ==
  /\ resultsPc \in {"fetching", "shown"}
  /\ resultsPc' = "gone"
  /\ results' = << >>
  /\ resultsLoading' = TRUE
  /\ location' = <<"other">>
  /\ UNCHANGED <<navState, quizScreen, backend, dashboard, historyPage,
                 startQuiz>>

ResultsNext ==
  \/ LoadHistory
  \/ LoadHistoryResponse
  \/ LoadHistoryError
  \/ \E nav \in NavStates : ResultsMount(nav)
  \/ \E id \in 1..MaxListed : handleViewResults(id)
  \/ \E payload \in ResultPayloads : ResultsResponse(payload)
  \/ ResultsError
  \/ ResultsUnmount

\* the History screen, no session of which is deleted, and the Results
\* screen
SpecResults == InitHistory /\ [][ResultsNext]_vars

\* every getResults request is settled sooner or later
SpecResultsFair ==
  /\ SpecResults
  /\ WF_vars((\E payload \in ResultPayloads : ResultsResponse(payload))
               \/ ResultsError)

\* ------------------------------------------------------------------ claims
InFlight(reqs) == BagCardinality(reqs)

AutoSubmits(reqs) == CopiesIn(TRUE, BagOfAll(LAMBDA r : r.auto, reqs))

MetadataKnown == quizData # << >> /\ quizData[1].quiz_metadata

\* the order of the session lifecycle, as the screen displays it
Rank(status) ==
  CASE status = "loading" -> 0
    [] status = "generating" -> 1
    [] status = "ready" -> 2
    [] status = "failed" -> 2
    [] status = "completed" -> 3

\* C1: once a getQuiz request of this mount is in flight or has delivered
\* the quiz, no step of the mounted screen issues another getQuiz request.
C1_QuizFetchedOnce ==
  [][(mounted = "yes" /\ (quizReqs > 0 \/ quizData # << >>))
       => quizReqs' <= quizReqs]_vars

\* C2: once seeded, timeRemaining never increases while the screen stays
\* mounted, and a step lowers it by at most 1.
C2_CountdownNeverIncreases ==
  [][(timeRemaining # Null /\ mounted' = "yes")
       => (timeRemaining' <= timeRemaining
           /\ timeRemaining' >= timeRemaining - 1)]_vars

\* C3: in the timed scenario with estimated_time_minutes = 1, once more than
\* 60 seconds have passed exactly one submitAnswers request has been sent,
\* and the countdown sent it.
C3_AutoSubmitAfterCountdown ==
  now > SeedTime(quiz)
    => (InFlight(submitReqs) = 1 /\ AutoSubmits(submitReqs) = 1)

\* C4: at most one submitAnswers request is in flight at any moment.
C4_SingleSubmitInFlight == InFlight(submitReqs) <= 1

\* C5: the displayed quizStatus never moves backward in the lifecycle while
\* the screen is mounted.
C5_StatusNeverRegresses ==
  [][mounted' = "yes" => Rank(quizStatus') >= Rank(quizStatus)]_vars

\* C6: while the mounted screen displays ready, completed or failed, no step
\* issues a getQuizStatus request.
C6_PollStopsAtTerminal ==
  [][(mounted = "yes" /\ quizStatus \in {"ready", "completed", "failed"})
       => InFlight(statusReqs') <= InFlight(statusReqs)]_vars

\* C7: after the unmount both timers are cleared and no step issues a
\* request of any kind.
C7_NoRequestAfterUnmount ==
  [][mounted = "no"
       => (/\ ~interval' /\ ~timer'
           /\ InFlight(statusReqs') <= InFlight(statusReqs)
           /\ quizReqs' <= quizReqs
           /\ InFlight(submitReqs') <= InFlight(submitReqs))]_vars

\* C8: at most one getQuizStatus request is in flight at any moment.
C8_SinglePollInFlight == InFlight(statusReqs) <= 1

\* C9: the mount issues a status request and starts the interval; the
\* interval stays active in every step that leaves the screen mounted, a
\* rejected request included; and with the interval active the tick is able
\* to issue a request whenever the bound on requests in flight allows one.
C9_PollingSurvivesErrors ==
  [][/\ (mounted = "init" /\ mounted' = "yes")
          => (interval' /\ InFlight(statusReqs') = InFlight(statusReqs) + 1)
     /\ mounted' = "yes" => interval'
     /\ (mounted = "yes" /\ InFlight(statusReqs) < MaxInFlight)
          => ENABLED PollTick
    ]_vars

\* C9 witness: a status request is pending on a mounted screen that has
\* shown a request failure, with no other request left from before.
C9_Witness ==
  /\ mounted = "yes"
  /\ interval
  /\ error = LoadFailed
  /\ statusReqs = SetToBag({"pending"}) (+) SetToBag({"pending"})

\* C10 as stated: the first value of timeRemaining is
\* estimated_time_minutes * 60, and 20 * 60 only when the field is omitted.
C10_SeedIsMinutesTimes60 ==
  [][(timeRemaining = Null /\ timeRemaining' # Null)
       => timeRemaining' =
            IF quiz.estimated_time_minutes = Null
              THEN 1200
              ELSE quiz.estimated_time_minutes * 60]_vars

\* C10 amended: when quiz metadata first becomes known timeRemaining is set
\* to estimated_time_minutes * 60 for a non-zero estimated_time_minutes and
\* to 1200 when the field is omitted or 0; before metadata is known
\* timeRemaining is null, stays null or takes that seed, and no automatic
\* submission is sent.
C10_CountdownSeeding ==
  [][/\ ~MetadataKnown => timeRemaining = Null
     /\ (~MetadataKnown /\ MetadataKnown')
          => timeRemaining' =
               IF quiz.estimated_time_minutes \in {Null, 0}
                 THEN 1200
                 ELSE quiz.estimated_time_minutes * 60
     /\ timeRemaining = Null
          => (/\ timeRemaining' # Null => MetadataKnown'
              /\ AutoSubmits(submitReqs') <= AutoSubmits(submitReqs))
    ]_vars

\* C10 witness: metadata that gives estimated_time_minutes = 0 has seeded
\* the countdown with the default.
C10_Witness ==
  /\ mounted = "yes"
  /\ MetadataKnown
  /\ quizData[1].estimated_time_minutes = 0
  /\ timeRemaining = 1200

\* ------------------------------------------------------------ C11 .. C14
\* the ids of the questions of the loaded quiz
QuestionIds == {QuestionId(i) : i \in 0..(NumQuestions - 1)}

\* C11: every submitAnswers request, sent by a click or by the countdown,
\* carries quiz_id = sessionId and the answers mapping as it is when the
\* request is sent; and no step of the mounted screen drops or alters the
\* recorded answer of a question other than the one being answered.
C11_SubmissionPayload ==
  [][/\ \A r \in BagToSet(submitReqs') :
          CopiesIn(r, submitReqs') > CopiesIn(r, submitReqs)
            => /\ r.body.quiz_id = sessionId
               /\ r.body.answers = answers
     /\ mounted' = "yes"
          => \A q \in DOMAIN answers \ {QuestionId(currentQuestionIndex)} :
               q \in DOMAIN answers' /\ answers'[q] = answers[q]]_vars

\* the countdown has submitted a mapping with every question answered
C11_Witness ==
  \E r \in BagToSet(submitReqs) :
    r.auto /\ DOMAIN r.body.answers = QuestionIds

\* C12: a failed submitAnswers leaves answers, currentQuestionIndex and the
\* route as they are and, on the mounted screen, puts isSubmitting back to
\* false; a successful one navigates to /results/{sessionId}.
C12_SubmissionFailure ==
  [][/\ (\E r \in BagToSet(submitReqs) : SubmitError(r))
          => /\ answers' = answers
             /\ currentQuestionIndex' = currentQuestionIndex
             /\ location' = location
             /\ mounted' = mounted
             /\ mounted = "yes" => ~isSubmitting'
     /\ (\E r \in BagToSet(submitReqs) : SubmitResponse(r))
          => location' = <<"results", sessionId>>]_vars

\* a submission has failed on the mounted screen: the backend graded it but
\* the response was lost, the answers are still there and Submit Quiz is
\* enabled on the last question
C12_Witness ==
  /\ mounted = "yes"
  /\ session = "completed"
  /\ submitReqs = EmptyBag
  /\ QuizView
  /\ isLastQuestion
  /\ ~isSubmitting
  /\ DOMAIN answers = QuestionIds

\* C13: when the mounted screen handles a status response with status
\* 'failed', it shows the error view, not the loading view or the quiz
\* view, with the message "Quiz generation failed: " followed by the
\* response's error_message, or by "Unknown error" when that is absent.
C13_FailedGenerationShown ==
  [][(mounted = "yes" /\ StatusResponse("failed"))
       => /\ ~LoadingView'
          /\ ErrorView'
          /\ ~QuizView'
          /\ error' = <<"Quiz generation failed: ",
                        IF error_message = << >>
                          THEN "Unknown error"
                          ELSE error_message[1]>>]_vars

\* a failed status without error_message is on the screen
C13_Witness ==
  /\ mounted = "yes"
  /\ quizStatus = "failed"
  /\ error_message = << >>
  /\ error = <<"Quiz generation failed: ", "Unknown error">>

\* C14: the answers mapping, on the screen and in every request, has only
\* ids of questions of the loaded quiz as keys and an answer the user gave
\* as every value; a key appears only for the question being answered.
C14_AnswerMappingShape ==
  [][/\ DOMAIN answers' \subseteq QuestionIds
     /\ \A q \in DOMAIN answers' : answers'[q] \in AnswerValues
     /\ DOMAIN answers' \subseteq
          DOMAIN answers \cup {QuestionId(currentQuestionIndex)}
     /\ \A r \in BagToSet(submitReqs') :
          /\ DOMAIN r.body.answers \subseteq QuestionIds
          /\ \A q \in DOMAIN r.body.answers :
               r.body.answers[q] \in AnswerValues]_vars

\* only the last question was answered, with a text that was erased again,
\* and the mapping was submitted without the other questions
C14_Witness ==
  \E r \in BagToSet(submitReqs) :
    /\ DOMAIN r.body.answers = {QuestionId(NumQuestions - 1)}
    /\ r.body.answers[QuestionId(NumQuestions - 1)] = ""

\* ------------------------------------------------------------ C15 .. C19
\* the transitions the lifecycle allows
LegalTransitions ==
  {<<"generating", "ready">>, <<"ready", "completed">>,
   <<"generating", "failed">>}

\* the statuses that may be seen after a status was seen
NotBefore(status) ==
  CASE status = "generating" -> Statuses
    [] status = "ready" -> {"ready", "completed"}
    [] status = "completed" -> {"completed"}
    [] status = "failed" -> {"failed"}

\* C15: a session is created in generating, its status changes only along
\* generating -> ready, ready -> completed or generating -> failed, and a
\* status query never returns a status that lies before the one the previous
\* query for the same id returned.
C15_SessionLifecycle ==
  [][\A id \in SessionIds :
       /\ (id \notin DOMAIN store /\ id \in DOMAIN store')
            => store'[id].status = "generating"
       /\ (id \in DOMAIN store /\ id \in DOMAIN store')
            => \/ store'[id].status = store[id].status
               \/ <<store[id].status, store'[id].status>> \in LegalTransitions
       /\ returned[id] # "none"
            => returned'[id] \in NotBefore(returned[id])]_vars

\* status queries have followed one session up to completed and the other
\* up to failed
C15_Witness ==
  /\ returned["s1"] = "completed"
  /\ returned["s2"] = "failed"

\* C16: in every state a reader can see, a session has its quiz iff it is
\* ready or completed, its result iff it is completed, and its
\* error_message iff it is failed; the quiz and result endpoints answer with
\* the field exactly in those statuses.
C16_FieldPresence ==
  \A id \in DOMAIN store :
    /\ store[id].status \in Statuses
    /\ store[id].quiz # << >> <=> store[id].status \in {"ready", "completed"}
    /\ store[id].result # << >> <=> store[id].status = "completed"
    /\ store[id].error_message # << >> <=> store[id].status = "failed"
    /\ StatusReply(id)[3] # << >> <=> StatusReply(id)[2] = "failed"
    /\ QuizReply(id)[1] = "ok" => QuizReply(id)[2] # << >>
    /\ ResultReply(id)[1] = "ok" => ResultReply(id)[2] # << >>

\* one session is ready while a submission for it is in flight, the other
\* one has failed
C16_Witness ==
  /\ "s1" \in DOMAIN store
  /\ "s2" \in DOMAIN store
  /\ store["s1"].status = "ready"
  /\ inflight["s1"] > 0
  /\ store["s2"].status = "failed"

\* C17: of the submit-answers requests for one session at most one is
\* answered with the result, every request served after it is refused with
\* Conflict (NotFound once the session is deleted), and a stored result is
\* never replaced.
C17_GradingAtMostOnce ==
  [][\A id \in SessionIds :
       /\ \A i, j \in DOMAIN submitLog'[id] :
            (i < j /\ submitLog'[id][i].body = <<"ok">>)
              => submitLog'[id][j].body \in {Conflict, NotFound}
       /\ (id \in DOMAIN store /\ id \in DOMAIN store'
             /\ store[id].result # << >>)
            => store'[id].result = store[id].result]_vars

\* two requests raced: the first one served was graded while the second
\* one was in flight, and the second one was refused
C17_Witness ==
  \E id \in DOMAIN store :
    /\ submitLog[id] = <<[body |-> <<"ok">>, racing |-> TRUE],
                          [body |-> Conflict, racing |-> FALSE]>>
    /\ store[id].result = <<1>>

\* C18: the generation job of a session runs at most once; a session
\* leaves generating only to ready with its quiz or to failed with its
\* error_message, written in the same step, and never returns to
\* generating; and every session in generating leaves it eventually (a
\* deleted session has left it).
C18_GenerationJobOutcome ==
  /\ [][\A id \in SessionIds :
          /\ jobRuns'[id] <= 1
          /\ (id \in DOMAIN store /\ id \in DOMAIN store'
                /\ store'[id].status # store[id].status)
               => /\ store'[id].status # "generating"
                  /\ store[id].status = "generating"
                       => \/ /\ store'[id].status = "ready"
                             /\ store'[id].quiz # << >>
                          \/ /\ store'[id].status = "failed"
                             /\ store'[id].error_message # << >>]_vars
  /\ \A id \in SessionIds :
       (id \in DOMAIN store /\ store[id].status = "generating")
         ~> (id \notin DOMAIN store \/ store[id].status # "generating")

\* both jobs have run: one session is ready, the other one has failed
C18_Witness ==
  /\ jobRuns = [id \in SessionIds |-> 1]
  /\ DOMAIN store = SessionIds
  /\ {store[id].status : id \in SessionIds} = {"ready", "failed"}

\* C19: a deleted session stays deleted, whatever the generation job or the
\* grading does afterwards; its status, quiz and result queries and its
\* submissions answer NotFound; deleting it again succeeds and changes
\* nothing.
C19_DeleteSemantics ==
  [][\A id \in issued :
       id \notin DOMAIN store
         => /\ id \notin DOMAIN store'
            /\ StatusReply(id) = NotFound
            /\ QuizReply(id) = NotFound
            /\ ResultReply(id) = NotFound
            /\ DeleteReply(id) = <<"ok">>
            /\ DeleteSession(id) => store' = store
            /\ Len(submitLog'[id]) > Len(submitLog[id])
                 => submitLog'[id][Len(submitLog'[id])].body = NotFound]_vars

\* a session was deleted while it was generating and while a submission
\* was in flight; the job has run and the submission was served since
C19_Witness ==
  \E id \in issued :
    /\ id \notin DOMAIN store
    /\ jobRuns[id] = 1
    /\ returned[id] = "generating"
    /\ Len(submitLog[id]) = 1
    /\ submitLog[id][1].body = NotFound

\* ------------------------------------------------------------------- C20
\* C20: once the Dashboard has loaded, its recent sessions are the first
\* min(5, n) sessions of the /history response in the order of the response
\* when the request succeeded, and none when it failed; in both cases the
\* subjects are shown and the loading view is gone.
C20_RecentSessions ==
  (dashPc = "done" /\ historyReq # "none")
    => /\ ~loading
       /\ subjects = SubjectList
       /\ historyReq = "ok"
            => /\ Len(recentSessions) = IF Len(history) < 5
                                          THEN Len(history)
                                          ELSE 5
               /\ \A i \in 1..Len(recentSessions) :
                    recentSessions[i] = history[i]
       /\ historyReq = "error" => recentSessions = << >>

\* a history of more than five sessions that starts with its oldest
\* session was loaded and cut to five
C20_Witness ==
  /\ dashPc = "done"
  /\ historyReq = "ok"
  /\ Len(history) = MaxHistory
  /\ history[1] = 1
  /\ Len(recentSessions) = 5
  /\ recentSessions[1] = 1

\* ------------------------------------------------------------ C22 .. C25
\* C22: while the screen is mounted an error that was set stays set, and
\* with an error set the screen shows the loading view or the error view,
\* never the quiz view, whatever the later polls answer.
C22_StickyError ==
  [][/\ (mounted' = "yes" /\ error # << >>) => error' = error \/ error' # << >>
     /\ (mounted' = "yes" /\ error' # << >>)
          => /\ ~QuizView'
             /\ ~LoadingView' => ErrorView']_vars

\* a status request failed, later polls answered ready and the quiz was
\* loaded: the error view is still shown
C22_Witness ==
  /\ mounted = "yes"
  /\ error = LoadFailed
  /\ quizStatus = "ready"
  /\ quizData # << >>
  /\ ErrorView

\* the three parts of C23 that hold as stated: getQuiz follows a status
\* response of 'ready' only, and quizData changes on the mounted screen only
\* by a served getQuiz response
QuizFetchTrigger ==
  /\ quizReqs' > quizReqs
       => /\ BagIn("ready", statusReqs)
          /\ statusReqs' = statusReqs (-) One("ready")
          /\ quizReqs' = quizReqs + 1
  /\ (mounted' = "yes" /\ quizData' # quizData)
       => /\ quizReqs' = quizReqs - 1
          /\ QuizServed
          /\ quizData' = <<quiz>>

\* the screen of a session that was completed before the mount, after its
\* status arrived: no quiz was fetched
CompletedNotFetched ==
  /\ mounted = "yes"
  /\ session = "completed"
  /\ quizStatus = "completed"
  /\ quizData = << >>

\* C23 as stated: getQuiz follows a status response of 'ready' only,
\* quizData changes only by a served getQuiz response, and the screen of a
\* session that is already completed fetches no quiz and shows the
\* 'Loading quiz questions' view.
C23_CompletedStaysNotReady ==
  [][/\ QuizFetchTrigger
     /\ CompletedNotFetched'
          => (quizReqs' = 0 /\ NotReadyView')]_vars

\* C23, amended: as stated, but the screen of a session that is already
\* completed shows the 'Loading quiz questions' view only as long as no
\* status request has failed, and the error view afterwards.
C23_QuizFetchTrigger ==
  [][/\ QuizFetchTrigger
     /\ CompletedNotFetched'
          => /\ quizReqs' = 0
             /\ error' = << >> => NotReadyView'
             /\ error' # << >> => ErrorView']_vars

\* a completed session is on the 'Loading quiz questions' view with two
\* status responses handled and nothing in flight
C23_Witness ==
  /\ CompletedNotFetched
  /\ NotReadyView
  /\ interval
  /\ statusReqs = EmptyBag
  /\ quizReqs = 0

\* C24: on the quiz view the index is between 0 and the number of questions
\* minus one; a step moves it by at most one, not above the last question
\* and not below the first; Submit Quiz can be clicked only on the last
\* question.
C24_QuestionIndexBounds ==
  [][/\ currentQuestionIndex' \in 0..(NumQuestions - 1)
     /\ mounted' = "yes"
          => \/ currentQuestionIndex' = currentQuestionIndex
             \/ /\ currentQuestionIndex' = currentQuestionIndex + 1
                /\ currentQuestionIndex < NumQuestions - 1
             \/ /\ currentQuestionIndex' = currentQuestionIndex - 1
                /\ currentQuestionIndex > 0
     /\ ENABLED ClickSubmit
          => currentQuestionIndex = NumQuestions - 1
     /\ currentQuestionIndex = NumQuestions - 1
          => ~ENABLED handleNextQuestion
     /\ currentQuestionIndex = 0 => ~ENABLED handlePreviousQuestion]_vars

\* the user went to the last question, where Submit Quiz is offered, with
\* an answer given on the way
C24_Witness ==
  /\ mounted = "yes"
  /\ QuizView
  /\ currentQuestionIndex = NumQuestions - 1
  /\ ~isSubmitting
  /\ 1 \in DOMAIN answers

\* C25: Next, Previous, the responses and failures of the polls and the
\* countdown ticks leave answers as it is; handleAnswerChange(q, a) sets
\* the entry of q to a and leaves the entry, or the absence, of every other
\* question as it is.
C25_AnswersFrame ==
  [][/\ (\/ handleNextQuestion
         \/ handlePreviousQuestion
         \/ \E status \in Statuses : StatusResponse(status)
         \/ \E r \in BagToSet(statusReqs) : StatusError(r)
         \/ QuizResponse
         \/ QuizError
         \/ CountdownTick)
          => answers' = answers
     /\ \A q \in 1..NumQuestions, a \in AnswerValues :
          handleAnswerChange(q, a)
            => /\ q \in DOMAIN answers'
               /\ answers'[q] = a
               /\ \A other \in (1..NumQuestions) \ {q} :
                    /\ other \in DOMAIN answers' <=> other \in DOMAIN answers
                    /\ other \in DOMAIN answers
                         => answers'[other] = answers[other]]_vars

\* the first question's answer was changed after the last question was
\* answered, and a poll was answered since
C25_Witness ==
  /\ mounted = "yes"
  /\ DOMAIN answers = 1..NumQuestions
  /\ answers[1] = ""
  /\ answers[NumQuestions] = "True"
  /\ currentQuestionIndex = 0
  /\ quizReqs > 0

\* ---------------------------------------------------------------- C21, C26
\* C21: once the History screen shows its list, no step brings back a
\* session that left the list: a delete that completed is not undone when
\* another delete, in flight together with it, completes
C21_DeleteRace ==
  [][(historyPc = "shown" /\ historyPc' = "shown")
       => Range(sessions') \subseteq Range(sessions)]_vars

\* C26: a declined confirmation issues no request and a failed request
\* leaves the list as it is; sessions leave the shown list only in the step
\* of a successful delete request, and then only the session of that
\* request leaves it
C26_DeleteFailure ==
  [][/\ (\E id \in 1..MaxListed : handleDeleteSession(id, FALSE))
          => /\ deleteReqs' = deleteReqs
             /\ sessions' = sessions
     /\ (\E r \in BagToSet(deleteReqs) : DeleteError(r))
          => sessions' = sessions
     /\ (historyPc' = "shown" /\ Range(sessions) \ Range(sessions') # {})
          => \E r \in BagToSet(deleteReqs) :
               /\ DeleteResponse(r)
               /\ Range(sessions) \ Range(sessions') = {r.id}]_vars

C28_ResultsLoading ==
  /\ [][/\ (resultsPc = "init" /\ resultsPc' # "init")
            => (resultsPc' = "fetching" <=> navState' = << >>)
        /\ ResultsError => (NoResultsView' /\ ~GradingView')
        /\ (resultsPc' = "shown"
              /\ results' # << >> /\ results'[1].quiz_results = << >>)
            => (NoResultsView' /\ ~GradingView')]_vars
  /\ [](resultsPc = "shown" => ~ResultsLoadingView)
  /\ (resultsPc = "fetching")
       ~> (~resultsLoading \/ resultsPc = "gone")

\* a fetch of the results has failed and the screen is shown
C28_Witness ==
  /\ resultsPc = "shown"
  /\ navState = << >>
  /\ results = << >>
  /\ NoResultsView

====
